---- MODULE Spec2Model ----
(***************************************************************************)
(* The `patch` mode of metconst-tool: process_directory (src/utils.rs)     *)
(* walks "downloads" and calls patch_in_dir (src/main.rs) on every         *)
(* discovered *.ips file.  patch_in_dir derives the output path, copies    *)
(* the base ROM there, parses the patch and applies its hunks and its      *)
(* truncation to the copy.                                                 *)
(*                                                                         *)
(* A path is a sequence of tokens: "/" and "." are tokens of their own,    *)
(* every other token is a maximal run of characters holding neither.       *)
(* A file's content is a sequence of bytes (position p of the file is      *)
(* index p + 1 of the sequence).  An Option is a sequence of length <= 1.  *)
(***************************************************************************)
EXTENDS Integers, Sequences, FiniteSets, TLC

VARIABLES
    base_rom,   \* PatchArgs.base_rom, the command line argument
    disk,       \* the file system: path -> content, for the files that exist
    base0,      \* ghost: Option of the base file's content before the batch
    idx,        \* process_directory: index in Walk of the current entry
    pd,         \* process_directory: "loop", "action", "returned", "panicked"
    pd_result,  \* what process_directory returned: "none", "Ok", "ErrLog"
    pc,         \* patch_in_dir: the step about to run
    rom_file,   \* patch_in_dir: the derived output path
    patch_buf,  \* patch_in_dir: Option of the bytes fs::read returned
    patch,      \* patch_in_dir: Option of the parsed Patch
    k,          \* patch_in_dir: index of the next hunk of the for loop
    result,     \* patch_in_dir: "none", "Ok" or the kind of the Err returned
    prior,      \* ghost: Option of the content found at rom_file by fs::copy
    fresh,      \* ghost: the target's content right after fs::copy
    ops,        \* ghost: seek / write / set_len calls on the target, in order
    invoked,    \* ghost: indices of the entries the action was called on
    outcome,    \* ghost: entry index -> result of its action
    reported    \* indices whose "Hit an error" line reached the log

vars == <<base_rom, disk, base0, idx, pd, pd_result, pc, rom_file, patch_buf,
          patch, k, result, prior, fresh, ops, invoked, outcome, reported>>

----------------------------------------------------------------------------
(* Bounds of the model *)

MaxHunks == 2
MaxOffset == 2
MaxPayload == 2
MaxTrunc == 5
MaxBase == 1

----------------------------------------------------------------------------
(* Options, paths *)

None == <<>>
Some(x) == <<x>>

Sep == "/"
Dot == "."

Max(a, b) == IF a >= b THEN a ELSE b

\* the largest index of s that holds token t, 0 when there is none
LastIndexOf(s, t) ==
    LET hits == {i \in 1..Len(s) : s[i] = t}
    IN IF hits = {} THEN 0 ELSE CHOOSE i \in hits : \A j \in hits : j <= i

\* str::rsplit_once('.'): the text after the last '.', None when there is no '.'
rsplit_once_ext(s) ==
    LET i == LastIndexOf(s, Dot)
    IN IF i = 0 THEN None ELSE Some(SubSeq(s, i + 1, Len(s)))

\* Path::parent of a path
parent(p) ==
    LET i == LastIndexOf(p, Sep)
    IN IF i = 0 THEN <<>> ELSE SubSeq(p, 1, i - 1)

\* Path::file_name of a path whose last component is a normal one
file_name(p) == SubSeq(p, LastIndexOf(p, Sep) + 1, Len(p))

\* Path::file_stem, given the file name
file_stem(name) ==
    LET i == LastIndexOf(name, Dot)
    IN IF i <= 1 THEN name ELSE SubSeq(name, 1, i - 1)

\* PathBuf::push of a relative or absolute path
push(buf, p) ==
    IF p # <<>> /\ p[1] = Sep THEN p
    ELSE IF buf = <<>> THEN p
    ELSE IF buf[Len(buf)] = Sep THEN buf \o p
    ELSE buf \o <<Sep>> \o p

\* PathBuf::set_extension: the file stem is kept, the extension replaced
set_extension(p, ext) ==
    LET i == LastIndexOf(p, Sep)
        stem == file_stem(file_name(p))
    IN SubSeq(p, 1, i) \o stem \o (IF ext = <<>> THEN <<>> ELSE <<Dot>> \o ext)

HasSep(s) == \E i \in 1..Len(s) : s[i] = Sep

\* str::to_ascii_uppercase, on the tokens the walked names hold
to_ascii_uppercase(t) ==
    CASE t = "ips" -> "IPS"
      [] t = "txt" -> "TXT"
      [] t = "fix" -> "FIX"
      [] t = "mod" -> "MOD"
      [] t = "v2" -> "V2"
      [] t = "readme" -> "README"
      [] OTHER -> t

ends_with_IPS(name) ==
    /\ Len(name) >= 2
    /\ name[Len(name) - 1] = Dot
    /\ to_ascii_uppercase(name[Len(name)]) = "IPS"

\* entry.file_type().is_dir() || file name, upper-cased, ends with ".IPS"
is_ips_file(e) == e.kind = "dir" \/ ends_with_IPS(file_name(e.path))

----------------------------------------------------------------------------
(* File contents *)

FillByte == 0

Prefix(s, n) == SubSeq(s, 1, n)

\* a write that zeroes what the file held before off
WriteAtZeroing(data, off, payload) ==
    [i \in 1..Max(Len(data), off + Len(payload)) |->
        IF i > off /\ i <= off + Len(payload) THEN payload[i - off]
        ELSE IF i > off /\ i <= Len(data) THEN data[i]
        ELSE FillByte]

\* a write that lands at the end of the file when off is beyond it
WriteAtEnd(data, off, payload) ==
    IF off > Len(data) THEN data \o payload
    ELSE [i \in 1..Max(Len(data), off + Len(payload)) |->
            IF i > off /\ i <= off + Len(payload) THEN payload[i - off]
            ELSE data[i]]

\* seek to off, then write payload there: bytes between the old end of the
\* file and off read as zero; writing nothing changes nothing
WriteAt(data, off, payload) ==
    IF payload = <<>> THEN data
    ELSE [i \in 1..Max(Len(data), off + Len(payload)) |->
            IF i > off /\ i <= off + Len(payload) THEN payload[i - off]
            ELSE IF i <= Len(data) THEN data[i]
            ELSE FillByte]

\* a set_len that leaves a shorter file as it is
set_len_no_grow(data, n) ==
    [i \in 1..(IF n < Len(data) THEN n ELSE Len(data)) |-> data[i]]

\* a set_len that leaves a longer file as it is
set_len_no_shrink(data, n) ==
    [i \in 1..Max(n, Len(data)) |-> IF i <= Len(data) THEN data[i] ELSE FillByte]

\* File::set_len: shrinks, or extends with zero bytes
set_len(data, n) ==
    [i \in 1..n |-> IF i <= Len(data) THEN data[i] ELSE FillByte]

\* the disk with path p holding data
Store(d, p, data) ==
    [q \in (DOMAIN d) \cup {p} |-> IF q = p THEN data ELSE d[q]]

Exists(d, p) == p \in DOMAIN d

\* a copy that opens `to` without truncating it: what an older, longer file
\* held beyond the copied bytes stays
copy_keep_tail(d, from, to) ==
    IF from = to THEN d
    ELSE IF Exists(d, to) /\ Len(d[to]) > Len(d[from])
         THEN Store(d, to, d[from] \o SubSeq(d[to], Len(d[from]) + 1, Len(d[to])))
         ELSE Store(d, to, d[from])

\* fs::copy(from, to) when it succeeds: `to` is opened with create + truncate
\* and the bytes of `from` are then read into it, so a file copied onto
\* itself is emptied first and nothing is left to copy
copy(d, from, to) ==
    IF from = to THEN Store(d, to, <<>>) ELSE Store(d, to, d[from])

----------------------------------------------------------------------------
(* Patch files.  A patch buffer is a header, a run of hunk records (offset, *)
(* declared size, data), an end marker and an optional truncation length.   *)

\* payload byte j of the h-th record: every byte names the hunk it came from
Tag(h, j) == 16 * h + j

\* the h-th record of a buffer: n payload bytes for offset o
Rec(h, o, n) == [offset |-> o, size |-> n, data |-> [j \in 1..n |-> Tag(h, j)]]

HunkRecs(h) == {Rec(h, o, n) : o \in 0..MaxOffset, n \in 1..MaxPayload}

RECURSIVE RecordSeqs(_)
RecordSeqs(n) ==
    IF n = 0 THEN {<<>>}
    ELSE {Append(r, h) : r \in RecordSeqs(n - 1), h \in HunkRecs(n)}

Truncations == {None} \cup {Some(t) : t \in 0..MaxTrunc}

WellFormedBufs ==
    {[header |-> TRUE, records |-> r, eof |-> TRUE, trunc |-> t] :
        r \in UNION {RecordSeqs(n) : n \in 0..MaxHunks}, t \in Truncations}

\* a buffer cut in the middle of its second record, one with a bad
\* signature, one that lacks the end marker
MalformedBufs ==
    { [header |-> TRUE,
       records |-> <<Rec(1, 0, 1),
                     [offset |-> 1, size |-> 2, data |-> <<Tag(2, 1)>>]>>,
       eof |-> FALSE, trunc |-> None],
      [header |-> FALSE,
       records |-> <<Rec(1, 0, 1)>>,
       eof |-> TRUE, trunc |-> None],
      [header |-> TRUE,
       records |-> <<Rec(1, 0, 1)>>,
       eof |-> FALSE, trunc |-> None] }

\* three hunks stacked on the first bytes of the file, with and without a
\* truncation
StackedBufs ==
    {[header |-> TRUE,
      records |-> <<Rec(1, 0, 2), Rec(2, 1, 1), Rec(3, 0, 2)>>,
      eof |-> TRUE, trunc |-> t] : t \in {None, Some(1)}}

PatchBufs == WellFormedBufs \cup StackedBufs \cup MalformedBufs

SmallPatchBufs ==
    { [header |-> TRUE,
       records |-> <<Rec(1, 1, 2)>>,
       eof |-> TRUE, trunc |-> Some(2)] } \cup MalformedBufs

\* Patch::parse: the hunks in the order of the buffer and the truncation,
\* or None for a buffer that is not a whole, well-signed run of records
Parse(b) ==
    IF /\ b.header
       /\ b.eof
       /\ \A h \in 1..Len(b.records) :
            b.records[h].size > 0 /\ Len(b.records[h].data) = b.records[h].size
    THEN Some([hunks |-> [h \in 1..Len(b.records) |->
                            [offset |-> b.records[h].offset,
                             payload |-> b.records[h].data]],
               truncation |-> b.trunc])
    ELSE None

----------------------------------------------------------------------------
(* The command line and the walked tree *)

NormalBase == <<"game", Dot, "sfc">>
NoDotBase == <<"game">>
DottedDirBase == <<"v1", Dot, "0", Sep, "game">>
DottedDirExtBase == <<"v1", Dot, "0", Sep, "game", Dot, "sfc">>
OutputAsBase == <<"patched", Sep, "downloads", Sep, "fix", Dot, "sfc">>

BaseRoms == {NormalBase, NoDotBase, DottedDirBase, DottedDirExtBase, OutputAsBase}

\* what WalkDir::new("downloads") yields, before the filter
Tree ==
    << [kind |-> "dir", path |-> <<"downloads">>],
       [kind |-> "file", path |-> <<"downloads", Sep, "fix", Dot, "ips">>],
       [kind |-> "err", path |-> <<>>],
       [kind |-> "file", path |-> <<"downloads", Sep, "readme", Dot, "txt">>],
       [kind |-> "dir", path |-> <<"downloads", Sep, "h">>],
       [kind |-> "file",
        path |-> <<"downloads", Sep, "h", Sep, "mod", Dot, "v2", Dot, "IPS">>] >>

\* WalkDir::new(start_dir).into_iter().filter_entry(filter): the filter is
\* asked about the entries that were read; an error is passed on as it is
Passes(e) == e.kind = "err" \/ is_ips_file(e)
Walk == SelectSeq(Tree, Passes)

FileIdx == {i \in 1..Len(Walk) : Walk[i].kind = "file"}
FirstFile == CHOOSE i \in FileIdx : \A j \in FileIdx : i <= j

BaseByte(i) == 160 + i
BaseContents == {[i \in 1..n |-> BaseByte(i)] : n \in 0..MaxBase}
OneBaseContent == [i \in 1..1 |-> BaseByte(i)]

\* an output left behind by an earlier run, longer than any patched file
StaleLen == MaxOffset + MaxPayload + MaxTrunc
StaleOutput == [i \in 1..StaleLen |-> 255]

\* the contents the patch file of entry i may have: every buffer of
\* PatchBufs for the first discovered file under the ordinary base path, a
\* few buffers for the later files and under the base paths that differ
\* only in how the output path is derived
PatchFiles(i) ==
    IF base_rom = NormalBase /\ i = FirstFile THEN PatchBufs ELSE SmallPatchBufs

----------------------------------------------------------------------------
(* The state at the start of `patch` mode *)

Init ==
    /\ base_rom \in BaseRoms
    /\ base0 \in {None} \cup {Some(c) : c \in BaseContents}
    /\ base_rom # NormalBase => base0 \in {None, Some(OneBaseContent)}
    /\ \E stale \in BOOLEAN :
         /\ stale => (base_rom = NormalBase /\ base0 = Some(OneBaseContent))
         /\ disk = LET d0 == IF stale THEN Store(<<>>, OutputAsBase, StaleOutput)
                                      ELSE <<>>
                   IN IF base0 = None THEN d0 ELSE Store(d0, base_rom, base0[1])
    /\ idx = 1
    /\ pd = "loop"
    /\ pd_result = "none"
    /\ pc = "idle"
    /\ rom_file = <<>>
    /\ patch_buf = None
    /\ patch = None
    /\ k = 1
    /\ result = "none"
    /\ prior = None
    /\ fresh = None
    /\ ops = <<>>
    /\ invoked = {}
    /\ outcome = <<>>
    /\ reported = {}

----------------------------------------------------------------------------
(* patch_in_dir, step by step *)

\* `?` on an Err: patch_in_dir returns it
Return(kind) ==
    /\ pc' = "ret"
    /\ result' = kind

Batch == <<base_rom, base0, idx, pd, pd_result, invoked, outcome, reported>>

\* the path the pushes of lines 192-196 build for entry e
PushedPath(e) ==
    push(push(push(<<>>, <<"patched">>), parent(e.path)), file_name(e.path))

\* a patch_in_dir that reads and parses the patch before it copies the base
ReadFirst == "read"

\* lines 208-210: what follows the derivation of the path is the copy
AfterPath == "copy"

\* lines 191-206: derive the output path, create its directory, log
PathStep ==
    /\ pd = "action" /\ pc = "path"
    /\ LET extension == rsplit_once_ext(base_rom)
       IN \/ \* fs::create_dir_all fails
             /\ Return("mkdir")
             /\ UNCHANGED <<Batch, disk, rom_file, patch_buf, patch, k, prior, fresh, ops>>
          \/ \* extension is None: unwrap() panics
             /\ extension = None
             /\ pc' = "panic" /\ pd' = "panicked"
             /\ UNCHANGED <<base_rom, base0, idx, pd_result, invoked, outcome,
                            reported, disk, rom_file, patch_buf, patch, k,
                            result, prior, fresh, ops>>
          \/ \* set_extension of a std that rejects a separator in the extension
             /\ extension # None /\ HasSep(extension[1])
             /\ pc' = "panic" /\ pd' = "panicked"
             /\ UNCHANGED <<base_rom, base0, idx, pd_result, invoked, outcome,
                            reported, disk, rom_file, patch_buf, patch, k,
                            result, prior, fresh, ops>>
          \/ /\ extension # None
             /\ rom_file' = set_extension(PushedPath(Walk[idx]), extension[1])
             /\ \/ pc' = AfterPath /\ UNCHANGED result
                \/ Return("log")
             /\ UNCHANGED <<Batch, disk, patch_buf, patch, k, prior, fresh, ops>>

\* lines 208-210: log, then fs::copy(base_rom, &rom_file)
CopyStep ==
    /\ pd = "action" /\ pc = "copy"
    /\ \/ /\ Return("log")
          /\ UNCHANGED <<Batch, disk, rom_file, patch_buf, patch, k, prior, fresh, ops>>
       \/ \* the copy fails before the destination is opened
          /\ Return("copy")
          /\ UNCHANGED <<Batch, disk, rom_file, patch_buf, patch, k, prior, fresh, ops>>
       \/ \* the copy fails after the destination was created or truncated
          /\ Exists(disk, base_rom)
          /\ disk' = Store(disk, rom_file, <<>>)
          /\ Return("copy")
          /\ UNCHANGED <<Batch, rom_file, patch_buf, patch, k, prior, fresh, ops>>
       \/ /\ Exists(disk, base_rom)
          /\ disk' = copy(disk, base_rom, rom_file)
          /\ prior' = IF Exists(disk, rom_file) THEN Some(disk[rom_file]) ELSE None
          /\ fresh' = Some(disk'[rom_file])
          /\ pc' = "perms"
          /\ UNCHANGED <<Batch, rom_file, patch_buf, patch, k, result, ops>>

\* lines 211-216: log, fs::metadata, fs::set_permissions
PermsStep ==
    /\ pd = "action" /\ pc = "perms"
    /\ \/ Return("log")
       \/ Return("perms")
       \/ pc' = "open" /\ UNCHANGED result
    /\ UNCHANGED <<Batch, disk, rom_file, patch_buf, patch, k, prior, fresh, ops>>

\* lines 218-220: log, open the copy for reading and writing
OpenStep ==
    /\ pd = "action" /\ pc = "open"
    /\ \/ Return("log")
       \/ Return("open")
       \/ pc' = "read" /\ UNCHANGED result
    /\ UNCHANGED <<Batch, disk, rom_file, patch_buf, patch, k, prior, fresh, ops>>

\* lines 221-225: log, fs::read the patch, Patch::parse, log
ReadStep ==
    /\ pd = "action" /\ pc = "read"
    /\ \/ /\ \/ Return("log")
             \/ Return("read")
          /\ UNCHANGED <<patch_buf, patch, k>>
       \/ \E b \in PatchFiles(idx) :
            /\ patch_buf' = Some(b)
            /\ \/ /\ Parse(b) = None
                  /\ Return("parse")
                  /\ UNCHANGED <<patch, k>>
               \/ /\ Parse(b) # None
                  /\ patch' = Parse(b)
                  /\ k' = 1
                  /\ \/ pc' = "hunks" /\ UNCHANGED result
                     \/ Return("log")
    /\ UNCHANGED <<Batch, disk, rom_file, prior, fresh, ops>>

\* a loop that writes every payload at the start of the file
HunkAtStart(p, i) == [offset |-> 0, payload |-> p.hunks[i].payload]

\* a loop that visits the hunks last to first
HunkAtReversed(p, i) == p.hunks[Len(p.hunks) + 1 - i]

\* the k-th hunk the for loop of line 226 visits
HunkAt(p, i) == p.hunks[i]

\* lines 226-229, one iteration: seek to the hunk's offset, write its payload
HunkStep ==
    /\ pd = "action" /\ pc = "hunks"
    /\ k <= Len(patch[1].hunks)
    /\ LET hunk == HunkAt(patch[1], k)
       IN \/ \* rom.seek fails
             /\ Return("seek")
             /\ UNCHANGED <<disk, ops, k>>
          \/ \* rom.write_all fails after writing j bytes of the payload
             \E j \in 0..(Len(hunk.payload) - 1) :
               /\ disk' = Store(disk, rom_file,
                                WriteAt(disk[rom_file], hunk.offset,
                                        Prefix(hunk.payload, j)))
               /\ ops' = Append(ops, "seek")
               /\ Return("write")
               /\ UNCHANGED k
          \/ /\ disk' = Store(disk, rom_file,
                              WriteAt(disk[rom_file], hunk.offset, hunk.payload))
             /\ ops' = ops \o <<"seek", "write">>
             /\ k' = k + 1
             /\ UNCHANGED <<pc, result>>
    /\ UNCHANGED <<Batch, rom_file, patch_buf, patch, prior, fresh>>

\* lines 231-236: after the loop, set_len to the truncation if there is one
TruncStep ==
    /\ pd = "action" /\ pc = "hunks"
    /\ k > Len(patch[1].hunks)
    /\ LET truncation == patch[1].truncation
       IN \/ /\ truncation = None
             /\ Return("Ok")
             /\ UNCHANGED <<disk, ops>>
          \/ /\ truncation # None
             /\ \/ Return("log")
                \/ Return("truncate")
             /\ UNCHANGED <<disk, ops>>
          \/ /\ truncation # None
             /\ disk' = Store(disk, rom_file, set_len(disk[rom_file], truncation[1]))
             /\ ops' = Append(ops, "set_len")
             /\ Return("Ok")
    /\ UNCHANGED <<Batch, rom_file, patch_buf, patch, k, prior, fresh>>

----------------------------------------------------------------------------
(* process_directory *)

Locals == <<pc, rom_file, patch_buf, patch, k, result, prior, fresh, ops>>

ResetLocals ==
    /\ pc' = "idle"
    /\ rom_file' = <<>>
    /\ patch_buf' = None
    /\ patch' = None
    /\ k' = 1
    /\ result' = "none"
    /\ prior' = None
    /\ fresh' = None
    /\ ops' = <<>>

\* lines 69-80: the next entry of the walk
PdNext ==
    /\ pd = "loop" /\ idx <= Len(Walk)
    /\ LET entry == Walk[idx]
       IN \/ \* Err(e): eprintln, log, continue
             /\ entry.kind = "err"
             /\ \/ idx' = idx + 1 /\ UNCHANGED <<pd, pd_result>>
                \/ pd' = "returned" /\ pd_result' = "ErrLog" /\ UNCHANGED idx
             /\ UNCHANGED <<Locals, invoked>>
          \/ \* not a file
             /\ entry.kind = "dir"
             /\ idx' = idx + 1
             /\ UNCHANGED <<pd, pd_result, Locals, invoked>>
          \/ \* a file: action(&entry, log)
             /\ entry.kind = "file"
             /\ pd' = "action"
             /\ pc' = "path"
             /\ invoked' = invoked \cup {idx}
             /\ UNCHANGED <<idx, pd_result, rom_file, patch_buf, patch, k,
                            result, prior, fresh, ops>>
    /\ UNCHANGED <<base_rom, base0, disk, outcome, reported>>

\* a loop that gives up the walk after an Err
StopWalk(i) == Len(Walk) + 1

\* lines 83-96: after an Err is reported the for loop goes on with the
\* entry that follows
AfterError(i) == i + 1

\* lines 80-96: the action returned
PdHandle ==
    /\ pd = "action" /\ pc = "ret"
    /\ outcome' = Store(outcome, idx, result)
    /\ \/ /\ result = "Ok"
          /\ idx' = idx + 1
          /\ pd' = "loop"
          /\ UNCHANGED <<pd_result, reported>>
       \/ \* Err(e): eprintln, then the log line is written
          /\ result # "Ok"
          /\ reported' = reported \cup {idx}
          /\ idx' = AfterError(idx)
          /\ pd' = "loop"
          /\ UNCHANGED pd_result
       \/ \* Err(e): eprintln, then writeln!(log, ..)? fails
          /\ result # "Ok"
          /\ pd' = "returned"
          /\ pd_result' = "ErrLog"
          /\ UNCHANGED <<idx, reported>>
    /\ ResetLocals
    /\ UNCHANGED <<base_rom, base0, disk, invoked>>

\* line 99: the walk is over
PdFinish ==
    /\ pd = "loop" /\ idx > Len(Walk)
    /\ pd' = "returned"
    /\ pd_result' = "Ok"
    /\ UNCHANGED <<base_rom, base0, disk, idx, Locals, invoked, outcome, reported>>

Next ==
    \/ PathStep
    \/ CopyStep
    \/ PermsStep
    \/ OpenStep
    \/ ReadStep
    \/ HunkStep
    \/ TruncStep
    \/ PdNext
    \/ PdHandle
    \/ PdFinish

Spec == Init /\ [][Next]_vars

----------------------------------------------------------------------------
(* What the claims speak of *)

\* patch_in_dir returned Ok(()) and process_directory has not yet gone on
Succeeded == pd = "action" /\ pc = "ret" /\ result = "Ok"

Target == disk[rom_file]

\* the end offset of a hunk
EndOf(h) == h.offset + Len(h.payload)

\* hunk h writes file position p (positions count from 0)
Covers(h, p) == h.offset <= p /\ p < EndOf(h)

\* the byte hunk h writes at position p
ByteOf(h, p) == h.payload[p - h.offset + 1]

\* data after the first n hunks of hs were written to it, in order
RECURSIVE ApplyHunks(_, _, _)
ApplyHunks(data, hs, n) ==
    IF n = 0 THEN data
    ELSE WriteAt(ApplyHunks(data, hs, n - 1), hs[n].offset, hs[n].payload)

\* data after one whole successful application of patch p
ApplyPatch(data, p) ==
    LET h == ApplyHunks(data, p.hunks, Len(p.hunks))
    IN IF p.truncation = None THEN h ELSE set_len(h, p.truncation[1])

\* the seek and write calls of n hunks
RECURSIVE HunkOps(_)
HunkOps(n) == IF n = 0 THEN <<>> ELSE HunkOps(n - 1) \o <<"seek", "write">>

----------------------------------------------------------------------------
(* C1 *)

\* C1: when patch_in_dir succeeds on a patch that has a truncation length T,
\* set_len is the last call on the target, it comes after the seek and write
\* of every hunk, and the file's final length is exactly T, also when some
\* hunk wrote at or beyond T.
C1_TruncationAfterHunks ==
    (Succeeded /\ patch[1].truncation # None) =>
        /\ ops = HunkOps(Len(patch[1].hunks)) \o <<"set_len">>
        /\ Len(Target) = patch[1].truncation[1]

\* a successful run whose truncation is shorter than the end of a hunk
C1_Witness ==
    /\ Succeeded
    /\ patch[1].truncation # None
    /\ \E i \in 1..Len(patch[1].hunks) :
         /\ patch[1].truncation[1] < EndOf(patch[1].hunks[i])
         /\ patch[1].truncation[1] > patch[1].hunks[i].offset
    /\ Len(Target) = patch[1].truncation[1]

----------------------------------------------------------------------------
(* C2 *)

\* C2 as stated: after a successful run, for any two hunks whose ranges
\* overlap, every position of the overlap that is inside the final file
\* holds the payload byte of the later of the two.
C2_LaterOfTwoWins ==
    Succeeded =>
        \A i \in 1..Len(patch[1].hunks) : \A j \in 1..Len(patch[1].hunks) :
            i < j =>
              \A p \in 0..(Len(Target) - 1) :
                (Covers(patch[1].hunks[i], p) /\ Covers(patch[1].hunks[j], p))
                    => Target[p + 1] = ByteOf(patch[1].hunks[j], p)

\* C2 amended: after a successful run, every position inside the final file
\* that some hunk covers holds the payload byte of the last hunk, in parse
\* order, that covers it.
C2_LastCoveringWins ==
    Succeeded =>
        \A p \in 0..(Len(Target) - 1) :
            \A j \in 1..Len(patch[1].hunks) :
                (/\ Covers(patch[1].hunks[j], p)
                 /\ \A l \in (j + 1)..Len(patch[1].hunks) :
                        ~Covers(patch[1].hunks[l], p))
                    => Target[p + 1] = ByteOf(patch[1].hunks[j], p)

\* a successful run with two hunks that overlap at a position of the final
\* file, which holds the later hunk's byte and not the earlier one's
C2_Witness ==
    /\ Succeeded
    /\ Len(patch[1].hunks) = 2
    /\ \E p \in 0..(Len(Target) - 1) :
         /\ Covers(patch[1].hunks[1], p)
         /\ Covers(patch[1].hunks[2], p)
         /\ Target[p + 1] = ByteOf(patch[1].hunks[2], p)
         /\ Target[p + 1] # ByteOf(patch[1].hunks[1], p)

----------------------------------------------------------------------------
(* C3 *)

\* the failures of patch_in_dir the claim lists: missing base file and copy
\* failure, permission-set failure, parse failure, seek, write and truncate
ListedFailures == {"copy", "perms", "parse", "seek", "write", "truncate"}

----------------------------------------------------------------------------
(* C4 *)

\* C4: when the bytes read from the patch file are a malformed buffer,
\* patch_in_dir returns the parse error, no seek, write or set_len was
\* made on the target, and the output file exists and holds exactly the
\* base file's content.
C4_MalformedLeavesCopy ==
    (pd = "action" /\ pc = "ret" /\ patch_buf # None
            /\ patch_buf[1] \in MalformedBufs) =>
        /\ result = "parse"
        /\ ops = <<>>
        /\ Exists(disk, rom_file)
        /\ Exists(disk, base_rom)
        /\ Target = disk[base_rom]

\* a buffer cut in the middle of a hunk record was read over an older,
\* longer output of a non-empty base file
C4_Witness ==
    /\ pd = "action" /\ pc = "ret" /\ result = "parse"
    /\ patch_buf # None
    /\ ~patch_buf[1].eof
    /\ Len(patch_buf[1].records) = 2
    /\ prior = Some(StaleOutput)
    /\ rom_file # base_rom
    /\ Target = disk[base_rom]
    /\ Len(Target) > 0

----------------------------------------------------------------------------
(* C5 *)

\* the positions the first n hunks of hs write
Written(hs, n) == {p \in 0..(MaxOffset + MaxPayload + 1) : \E i \in 1..n : Covers(hs[i], p)}

\* C5 as stated: when the seek or the write of hunk k fails, an error is
\* returned, no later hunk and no truncation is applied, and the target
\* holds, at every position hunks 1..k-1 wrote, the byte they left there.
C5_EarlierBytesKept ==
    (pd = "action" /\ pc = "ret" /\ result \in {"seek", "write"}) =>
        /\ "set_len" \notin {ops[i] : i \in 1..Len(ops)}
        /\ Len(ops) <= 2 * (k - 1) + 1
        /\ \A p \in Written(patch[1].hunks, k - 1) :
             /\ p < Len(Target)
             /\ Target[p + 1] = ApplyHunks(fresh[1], patch[1].hunks, k - 1)[p + 1]

\* C5 amended: when the seek or the write of hunk k fails, an error is
\* returned, no later hunk and no truncation is applied, and the target is
\* the fresh copy with hunks 1..k-1 applied in order and with a proper
\* prefix of hunk k's payload (none after a failed seek) written at hunk
\* k's offset: nothing is rolled back, and the bytes of hunks 1..k-1 stay
\* except where that prefix overwrote them.
C5_PartiallyPatched ==
    (pd = "action" /\ pc = "ret" /\ result \in {"seek", "write"}) =>
        /\ "set_len" \notin {ops[i] : i \in 1..Len(ops)}
        /\ ops \in {HunkOps(k - 1), HunkOps(k - 1) \o <<"seek">>}
        /\ \E j \in 0..(Len(patch[1].hunks[k].payload) - 1) :
             /\ result = "seek" => j = 0
             /\ Target = WriteAt(ApplyHunks(fresh[1], patch[1].hunks, k - 1),
                                 patch[1].hunks[k].offset,
                                 Prefix(patch[1].hunks[k].payload, j))

\* the write of the second of three hunks failed: the first hunk's bytes
\* are in the target, which differs from the fresh copy
C5_Witness ==
    /\ pd = "action" /\ pc = "ret" /\ result = "write"
    /\ k = 2
    /\ Len(patch[1].hunks) = 3
    /\ Len(fresh[1]) > 0
    /\ patch[1].truncation # None
    /\ Target # fresh[1]
    /\ \A p \in Written(patch[1].hunks, 1) :
         Target[p + 1] = ByteOf(patch[1].hunks[1], p)

----------------------------------------------------------------------------
(* C6 *)

\* C6: a hunk applied at an offset greater than the target's length L
\* leaves a target of length offset + payload length, whose bytes [0, L)
\* are unchanged, whose bytes [L, offset) are zero and whose bytes from
\* offset on are the payload.
C6_GrowthBeyondEnd ==
    [][ (pc = "hunks" /\ k' = k + 1
            /\ patch[1].hunks[k].offset > Len(disk[rom_file])) =>
          LET h == patch[1].hunks[k]
              old == disk[rom_file]
              new == disk'[rom_file]
          IN /\ Len(new) = h.offset + Len(h.payload)
             /\ \A i \in 1..Len(old) : new[i] = old[i]
             /\ \A i \in (Len(old) + 1)..h.offset : new[i] = 0
             /\ \A j \in 1..Len(h.payload) : new[h.offset + j] = h.payload[j]
      ]_vars

\* the first hunk was applied beyond the end of a non-empty fresh copy: a
\* zero byte fills the gap
C6_Witness ==
    /\ pd = "action" /\ pc = "hunks" /\ k = 2
    /\ Len(fresh[1]) > 0
    /\ patch[1].hunks[1].offset > Len(fresh[1])
    /\ Len(Target) = EndOf(patch[1].hunks[1])
    /\ Target[1] = fresh[1][1]
    /\ Target[Len(fresh[1]) + 1] = 0
    /\ Target[patch[1].hunks[1].offset + 1] = patch[1].hunks[1].payload[1]

----------------------------------------------------------------------------
(* C7 *)

\* the extension of a file name: what follows its last '.', when that '.' is
\* not the name's first character
ExtensionOf(name) ==
    LET i == LastIndexOf(name, Dot)
    IN IF i <= 1 THEN None ELSE Some(SubSeq(name, i + 1, Len(name)))

\* a discovered patch file's name without its final ".ips"
BaseNameOf(name) == SubSeq(name, 1, Len(name) - 2)

\* C7: whenever patch_in_dir has built an output path for the patch file at
\* directory D with name N.<patch ext>, the base file's own name has an
\* extension E and the path is patched/D/N.E, whatever dots the directories
\* of the base path hold.
C7_ExtensionSubstitution ==
    (pd = "action" /\ rom_file # <<>>) =>
        LET e == Walk[idx]
            E == ExtensionOf(file_name(base_rom))
        IN /\ E # None
           /\ rom_file = <<"patched", Sep>> \o parent(e.path) \o <<Sep>>
                            \o BaseNameOf(file_name(e.path)) \o <<Dot>> \o E[1]

----------------------------------------------------------------------------
(* C8 *)

\* C8: at every point of the batch the base file exists with the content it
\* had before the batch.
C8_BaseNeverMutated ==
    base0 # None => (Exists(disk, base_rom) /\ disk[base_rom] = base0[1])

----------------------------------------------------------------------------
(* C9 *)

\* C9: whatever an earlier run left at the output path, a run that succeeds
\* leaves there exactly what one application of the patch to the base
\* file's content gives: no byte and no length of the older file survives.
C9_CleanCopy ==
    Succeeded => Target = ApplyPatch(disk[base_rom], patch[1])

\* a successful run over an older, longer output: the result is shorter
\* than what was there and holds a hunk's bytes
C9_Witness ==
    /\ Succeeded
    /\ prior = Some(StaleOutput)
    /\ Len(patch[1].hunks) >= 1
    /\ Len(fresh[1]) > 0
    /\ Len(Target) < Len(StaleOutput)
    /\ Target # fresh[1]

----------------------------------------------------------------------------
(* C10 *)

\* C10: with a base path that holds no '.', the process never panics: every
\* call of patch_in_dir ends by returning to process_directory.
C10_NoExtensionIsAnError ==
    rsplit_once_ext(base_rom) = None => (pd # "panicked" /\ pc # "panic")

----------------------------------------------------------------------------
(* C11 *)

\* C11 as stated: the patch buffer is parsed before the base file is copied
\* to the output path: whenever the copy has been made, the patch has been
\* parsed, and a call that ends with the parse error has created or
\* overwritten no output file.
C11_ParseBeforeCopy ==
    /\ fresh # None => patch # None
    /\ (pd = "action" /\ pc = "ret" /\ result = "parse") => fresh = None

\* C11 amended: the steps of one patch_in_dir call run in the order copy,
\* set permissions, open, read and parse, apply hunks, truncate: the patch
\* is read and parsed only after the base file was copied to the output
\* path, no seek, write or set_len is made before the patch is parsed, and
\* a call that ends with the parse error leaves an output file that holds
\* the copied base content.
C11_CopyBeforeParse ==
    /\ pc \in {"path", "copy"} =>
          (fresh = None /\ patch_buf = None /\ patch = None /\ ops = <<>>)
    /\ pc \in {"perms", "open", "read"} =>
          (fresh # None /\ patch_buf = None /\ patch = None /\ ops = <<>>)
    /\ patch_buf # None => fresh # None
    /\ pc = "hunks" =>
          (fresh # None /\ patch # None /\ ops = HunkOps(k - 1))
    /\ ops # <<>> => patch # None
    /\ (pd = "action" /\ pc = "ret" /\ result = "parse") =>
          (fresh # None /\ Exists(disk, rom_file) /\ Target = fresh[1])

\* a call ended with the parse error after it had replaced an older output
\* by a copy of a non-empty base file
C11_Witness ==
    /\ pd = "action" /\ pc = "ret" /\ result = "parse"
    /\ patch = None
    /\ prior = Some(StaleOutput)
    /\ fresh # None
    /\ Target = fresh[1]
    /\ Target # StaleOutput
    /\ Len(Target) > 0

----------------------------------------------------------------------------
(* C12 *)

\* the target after every hunk of the parsed patch was applied to the copy
AfterHunks == ApplyHunks(fresh[1], patch[1].hunks, Len(patch[1].hunks))

\* C12: when patch_in_dir succeeds on a patch whose truncation length T is
\* greater than the target's length after all hunks, the final length is
\* exactly T, every byte below the former end is unchanged and every byte
\* from the former end up to T is zero.
C12_TruncationGrowsWithZeros ==
    (Succeeded /\ patch[1].truncation # None
              /\ patch[1].truncation[1] > Len(AfterHunks)) =>
        /\ Len(Target) = patch[1].truncation[1]
        /\ \A i \in 1..Len(AfterHunks) : Target[i] = AfterHunks[i]
        /\ \A i \in (Len(AfterHunks) + 1)..Len(Target) : Target[i] = 0

\* a run succeeded whose truncation is beyond the end the hunks left: the
\* file grew to it, its last byte is zero, a hunk's byte is still there
C12_Witness ==
    /\ Succeeded
    /\ patch[1].truncation # None
    /\ Len(patch[1].hunks) >= 1
    /\ Len(fresh[1]) > 0
    /\ patch[1].truncation[1] > Len(AfterHunks) + 1
    /\ Len(Target) = patch[1].truncation[1]
    /\ Target[Len(Target)] = 0
    /\ Target[Len(AfterHunks)] # 0
    /\ ops[Len(ops)] = "set_len"

----------------------------------------------------------------------------
(* C13 *)

\* the greatest of n and the end offsets of the hunks hs
MaxEnd(n, hs) ==
    LET ends == {n} \cup {EndOf(hs[i]) : i \in 1..Len(hs)}
    IN CHOOSE m \in ends : \A e \in ends : e <= m

====
